---- MODULE Spec2Model ----
(***************************************************************************)
(* Jacobi relaxation of the 2D Laplace equation (laplace.ipynb).           *)
(*                                                                         *)
(* The notebook holds one function, finite_difference(U, dx), and one      *)
(* driver loop that calls it up to max_iter times and breaks when the      *)
(* max-norm of the change of one sweep is below tol.                       *)
(*                                                                         *)
(* Numbers.  The notebook computes in float64.  Every field value of this  *)
(* model is an integer count of 1/Unit, Unit = 4^MaxIter, and every        *)
(* initial value is a multiple of Unit.  A sweep divides by 4, so after n  *)
(* sweeps every value is a multiple of 4^(MaxIter-n): within MaxIter       *)
(* sweeps the division (sum \div 4) is exact, and it is the value float64  *)
(* computes too (dyadic rationals with a few bits, no rounding).           *)
(***************************************************************************)
EXTENDS Integers, Sequences, FiniteSets

\* Largest max_iter a run is started with.
MaxIter == 4

\* The fixed-point unit: the value 1.0 of the notebook.
Unit == 4 ^ MaxIter

\* Grid shapes (Nx, Ny) a run is started with.  Shapes with Nx < 3 or
\* Ny < 3 have no interior point.
Shapes == { <<2, 2>>, <<2, 3>>, <<3, 2>>, <<3, 3>>, <<3, 4>>, <<4, 3>> }

\* Values an entry of the initial field takes: 0.0 and 1.0.
Vals == { 0, Unit }

\* Tolerances a run is started with: 0, 0.25 and 1.0.
Tols == { 0, Unit \div 4, Unit }

\* Python's None: a name not bound yet (U_new before the first sweep), and
\* for the integer names (i, the printed iteration) the value NoInt.
None == << >>
NoInt == 0 - 1

\* No sweep is spread over workers.
Idle == [pending |-> {}, reg |-> << >>, order |-> << >>]

VARIABLES
    U0,         \* the array the initialisation cell built (never rebound)
    U,          \* the name U of the driver loop
    U_new,      \* the name U_new of the driver loop
    i,          \* the loop variable
    max_iter,   \* iteration cap
    tol,        \* tolerance
    printed,    \* the iteration printed by 'Converged at iteration', or NoInt
    sweeps,     \* number of calls of finite_difference made so far
    residuals,  \* np.max(np.abs(U - U_new)) of each sweep, in order
    pc,         \* "loop": at the head of the for loop; "done": after it
    work        \* a sweep spread over workers: the points not yet taken and
                \* the value each worker holds (Idle in the notebook's run)

vars == << U0, U, U_new, i, max_iter, tol, printed, sweeps, residuals, pc, work >>

----------------------------------------------------------------------------
(* numpy arrays *)

\* np.zeros((Nx, Ny)) and friends: the index set of an Nx x Ny array.
Indices(Nx, Ny) == (0 .. Nx - 1) \X (0 .. Ny - 1)

\* U.shape
Shape(A) ==
    << Cardinality({ p[1] : p \in DOMAIN A }),
       Cardinality({ p[2] : p \in DOMAIN A }) >>

\* numpy indexing A[a, b]: a negative index counts from the end.
Wrap(a, n) == IF a < 0 THEN a + n ELSE a

Get(A, a, b) == A[Wrap(a, Shape(A)[1]), Wrap(b, Shape(A)[2])]

Abs(x) == IF x < 0 THEN 0 - x ELSE x

\* np.max over a non-empty set of numbers.
SetMax(S) == CHOOSE m \in S : \A x \in S : x <= m

SetMin(S) == CHOOSE m \in S : \A x \in S : m <= x

----------------------------------------------------------------------------
(* finite_difference(U, dx).  The function's locals U, U_new, i, j are     *)
(* written u, u_new, a, b here: the driver's names U, U_new, i are the     *)
(* variables of this module.                                               *)

\* range(lo, hi) of Python: lo, lo+1, ..., hi-1.
range(lo, hi) == lo .. (hi - 1)

\* A slip of operator precedence: only the last neighbour is divided by 4.
UpdatePointNoParens(u, u_new, a, b) ==
    [u_new EXCEPT ![a, b] =
        Get(u, a + 1, b) + Get(u, a - 1, b) + Get(u, a, b + 1)
            + (Get(u, a, b - 1) \div 4)]

\* Gauss-Seidel: the neighbours already visited in this sweep are read from
\* the array being written.
UpdatePointGaussSeidel(u, u_new, a, b) ==
    [u_new EXCEPT ![a, b] =
        (Get(u, a + 1, b) + Get(u_new, a - 1, b) + Get(u, a, b + 1)
            + Get(u_new, a, b - 1)) \div 4]

\* U_new[i, j] = (U[i+1, j] + U[i-1, j] + U[i, j+1] + U[i, j-1]) / 4
UpdatePoint(u, u_new, a, b) ==
    [u_new EXCEPT ![a, b] =
        (Get(u, a + 1, b) + Get(u, a - 1, b) + Get(u, a, b + 1)
            + Get(u, a, b - 1)) \div 4]

\* U_new = U: a second name for the caller's array, no second array.
NoCopy(u) == [array |-> u, shared |-> TRUE]

\* U_new = U.copy(): a new array with u's values, which shares nothing with
\* the caller's array.
Copy(u) == [array |-> u, shared |-> FALSE]

\* The array the local name U names while the loops run: the caller's array
\* u, which holds what was written through U_new if the two are shared.
ArrayOfU(u, u_new, shared) == IF shared THEN u_new ELSE u

\* for j in range(1, Ny-1): the rest of row a, from column b on.
RECURSIVE InnerLoop(_, _, _, _, _, _)
InnerLoop(u, u_new, shared, a, b, Ny) ==
    IF b \in range(1, Ny - 1)
    THEN InnerLoop(u, UpdatePoint(ArrayOfU(u, u_new, shared), u_new, a, b),
                   shared, a, b + 1, Ny)
    ELSE u_new

\* for i in range(lo, Nx-1): the rows from a on (lo is 1 in the code).
RECURSIVE OuterLoop(_, _, _, _, _, _, _)
OuterLoop(u, u_new, shared, a, lo, Nx, Ny) ==
    IF a \in range(lo, Nx - 1)
    THEN OuterLoop(u, InnerLoop(u, u_new, shared, a, 1, Ny),
                   shared, a + 1, lo, Nx, Ny)
    ELSE u_new

\* The rows loop written range(Nx-1): it starts at row 0, whose upper
\* neighbour U[-1, j] is, by numpy's indexing, the last row.
finite_difference_from_zero(u, dx) ==
    LET Nx == Shape(u)[1]
        Ny == Shape(u)[2]
        c == Copy(u)
        u_new == OuterLoop(u, c.array, c.shared, 0, 0, Nx, Ny)
    IN  [arg |-> ArrayOfU(u, u_new, c.shared), ret |-> u_new]

\* The call finite_difference(U, dx): ret is the array it returns, arg the
\* caller's array as the call leaves it.
finite_difference(u, dx) ==
    LET Nx == Shape(u)[1]
        Ny == Shape(u)[2]
        c == Copy(u)
        u_new == OuterLoop(u, c.array, c.shared, 1, 1, Nx, Ny)
    IN  [arg |-> ArrayOfU(u, u_new, c.shared), ret |-> u_new]

\* return U_new
Returned(h) == h.ret

\* The caller's array after the call.
ArgAfter(h) == h.arg

----------------------------------------------------------------------------
(* the driver loop *)

\* dx = 1.0 / (N - 1), as the pair numerator, denominator.
dx(N) == << 1, N - 1 >>

\* The absolute value left out: np.max(U - U_new).
ResidualSigned(u, u_new) == SetMax({ u[p] - u_new[p] : p \in DOMAIN u })

\* np.max(np.abs(U - U_new))
Residual(u, u_new) == SetMax({ Abs(u[p] - u_new[p]) : p \in DOMAIN u })

ConvergedNonStrict(res, t) == res <= t

\* np.max(np.abs(U - U_new)) < tol
Converged(res, t) == res < t

RangeInclusive(n) == range(0, n + 1)

\* range(max_iter)
RangeOf(n) == range(0, n)

\* The value the for statement binds next.
NextIndex(k) == IF k = NoInt THEN 0 ELSE k + 1

ReportedOneBased(k) == k + 1

\* print('Converged at iteration', i)
Reported(k) == k

Init ==
    /\ \E s \in Shapes : U0 \in [Indices(s[1], s[2]) -> Vals]
    /\ U = U0
    /\ U_new = None
    /\ i = NoInt
    /\ max_iter \in 0 .. MaxIter
    /\ tol \in Tols
    /\ printed = NoInt
    /\ sweeps = 0
    /\ residuals = << >>
    /\ pc = "loop"
    /\ work = Idle

\* The names U0 and U refer to one array until the first U = U_new rebinds
\* U: what a call does to its argument is then seen through U0 too.
InitialAfter(h) == IF sweeps = 0 THEN ArgAfter(h) ELSE U0

\* One iteration that ends in break: U keeps naming the array it passed.
SweepBreak ==
    /\ pc = "loop"
    /\ NextIndex(i) \in RangeOf(max_iter)
    /\ LET h == finite_difference(U, dx(Shape(U)[1]))
           r == Residual(ArgAfter(h), Returned(h))
       IN  /\ Converged(r, tol)
           /\ i' = NextIndex(i)
           /\ U_new' = Returned(h)
           /\ U' = ArgAfter(h)
           /\ U0' = InitialAfter(h)
           /\ residuals' = Append(residuals, r)
           /\ sweeps' = sweeps + 1
           /\ printed' = Reported(i')
           /\ pc' = "done"
    /\ UNCHANGED << max_iter, tol, work >>

\* One iteration that falls through to U = U_new.
SweepAdopt ==
    /\ pc = "loop"
    /\ NextIndex(i) \in RangeOf(max_iter)
    /\ LET h == finite_difference(U, dx(Shape(U)[1]))
           r == Residual(ArgAfter(h), Returned(h))
       IN  /\ ~ Converged(r, tol)
           /\ i' = NextIndex(i)
           /\ U_new' = Returned(h)
           /\ U' = U_new'
           /\ U0' = InitialAfter(h)
           /\ residuals' = Append(residuals, r)
           /\ sweeps' = sweeps + 1
    /\ UNCHANGED << max_iter, tol, printed, pc, work >>

\* range(max_iter) is used up: the for statement ends.
Exhausted ==
    /\ pc = "loop"
    /\ NextIndex(i) \notin RangeOf(max_iter)
    /\ pc' = "done"
    /\ UNCHANGED << U0, U, U_new, i, max_iter, tol, printed, sweeps, residuals, work >>

Next == SweepBreak \/ SweepAdopt \/ Exhausted

Spec == Init /\ [][Next]_vars

\* The notebook's own initial field: a square N x N array of zeros with the
\* value stamped on its four edges.  Sides and boundary values a run is
\* started with:
UniformSizes == { 3, 4, 5 }

UniformValues == { 0 - Unit, Unit, 2 * Unit }

\* U = np.zeros((N, N)); U[0, :] = U[-1, :] = U[:, 0] = U[:, -1] = value
UniformGrid(N, value) ==
    [p \in Indices(N, N) |->
        IF p[1] \in {0, N - 1} \/ p[2] \in {0, N - 1} THEN value ELSE 0]

InitUniform ==
    /\ \E N \in UniformSizes, value \in UniformValues : U0 = UniformGrid(N, value)
    /\ U = U0
    /\ U_new = None
    /\ i = NoInt
    /\ max_iter \in 0 .. MaxIter
    /\ tol \in Tols
    /\ printed = NoInt
    /\ sweeps = 0
    /\ residuals = << >>
    /\ pc = "loop"
    /\ work = Idle

\* The cell runs to its end: the loop is never left half way.
SpecUniform == InitUniform /\ [][Next]_vars /\ WF_vars(Next)

----------------------------------------------------------------------------
(* One sweep with the iterations of its loops spread over workers.  Each   *)
(* worker takes any interior point not yet taken, evaluates the right-hand *)
(* side of the assignment for it, and stores the value later; the sweep is *)
(* over (the array is returned) when every point is stored.                *)

\* Number of workers.
NumWorkers == 2

Workers == 1 .. NumWorkers

\* Grids the spread sweep is run on: every field on the shapes with two
\* interior points, and the fields with a uniform boundary on larger ones.
PointShapes == { << 3, 4 >>, << 4, 3 >> }

PointShapesUniform == { << 3, 5 >>, << 4, 4 >> }

PointFields ==
    UNION { [Indices(s[1], s[2]) -> Vals] : s \in PointShapes }
    \cup
    UNION { { f \in [Indices(s[1], s[2]) -> Vals] :
                \A p, q \in DOMAIN f :
                    (p[1] \in {0, s[1] - 1} \/ p[2] \in {0, s[2] - 1})
                    /\ (q[1] \in {0, s[1] - 1} \/ q[2] \in {0, s[2] - 1})
                    => f[p] = f[q] } : s \in PointShapesUniform }

\* The points the two loops visit.
LoopPoints(u) ==
    range(1, Shape(u)[1] - 1) \X range(1, Shape(u)[2] - 1)

InitPoints ==
    /\ U0 \in PointFields
    /\ U = U0
    /\ U_new = Copy(U0).array
    /\ i = 0
    /\ max_iter = 1
    /\ tol = 0
    /\ printed = NoInt
    /\ sweeps = 0
    /\ residuals = << >>
    /\ pc = "sweep"
    /\ work = [pending |-> LoopPoints(U0),
               reg |-> [w \in Workers |-> None],
               order |-> << >>]

\* Worker w takes point p and evaluates
\* (U[i+1, j] + U[i-1, j] + U[i, j+1] + U[i, j-1]) / 4 for it.
Take(w, p) ==
    /\ pc = "sweep"
    /\ work.reg[w] = None
    /\ p \in work.pending
    /\ LET v == UpdatePoint(ArrayOfU(U, U_new, Copy(U).shared), U_new,
                            p[1], p[2])[p]
       IN  work' = [work EXCEPT !.pending = @ \ {p}, !.reg[w] = << p, v >>]
    /\ UNCHANGED << U0, U, U_new, i, max_iter, tol, printed, sweeps, residuals, pc >>

\* Worker w stores the value it holds: U_new[i, j] = ...
Store(w) ==
    /\ pc = "sweep"
    /\ work.reg[w] # None
    /\ LET p == work.reg[w][1]
           v == work.reg[w][2]
       IN  /\ U_new' = [U_new EXCEPT ![p] = v]
           /\ U' = ArrayOfU(U, U_new', Copy(U).shared)
           /\ U0' = ArrayOfU(U0, U_new', Copy(U).shared)
           /\ work' = [work EXCEPT !.reg[w] = None, !.order = Append(@, p)]
    /\ UNCHANGED << i, max_iter, tol, printed, sweeps, residuals, pc >>

\* Every point is stored: return U_new.
Join ==
    /\ pc = "sweep"
    /\ work.pending = {}
    /\ \A w \in Workers : work.reg[w] = None
    /\ pc' = "joined"
    /\ sweeps' = sweeps + 1
    /\ UNCHANGED << U0, U, U_new, i, max_iter, tol, printed, residuals, work >>

NextPoints ==
    \/ \E w \in Workers : \E p \in work.pending : Take(w, p)
    \/ \E w \in Workers : Store(w)
    \/ Join

SpecPoints == InitPoints /\ [][NextPoints]_vars

----------------------------------------------------------------------------
(* Vocabulary of the properties *)

\* Interior points 1 <= a <= Nx-2, 1 <= b <= Ny-2 of an array, and the rest.
InteriorOf(A) ==
    { p \in DOMAIN A : /\ 1 <= p[1] /\ p[1] <= Shape(A)[1] - 2
                       /\ 1 <= p[2] /\ p[2] <= Shape(A)[2] - 2 }

BoundaryOf(A) == DOMAIN A \ InteriorOf(A)

\* Four times the mean of the four axis-aligned neighbours of p in A.
NeighbourSum(A, p) ==
    A[p[1] + 1, p[2]] + A[p[1] - 1, p[2]] + A[p[1], p[2] + 1] + A[p[1], p[2] - 1]

\* The Jacobi map as the mathematics states it: every interior value becomes
\* the mean of its neighbours in A, every boundary value stays.
JacobiMap(A) ==
    [p \in DOMAIN A |->
        IF p \in InteriorOf(A) THEN NeighbourSum(A, p) \div 4 ELSE A[p]]

RECURSIVE Iterate(_, _)
Iterate(A, n) == IF n = 0 THEN A ELSE Iterate(JacobiMap(A), n - 1)

ValuesOf(A) == { A[p] : p \in DOMAIN A }

\* A sweep has been made and its residual was below the tolerance.
LastSweepBelowTol == sweeps >= 1 /\ residuals[sweeps] < tol

\* The 3x3 grid with boundary 1.0 and interior 0.0.
MinimalGrid ==
    [p \in Indices(3, 3) |-> IF p = << 1, 1 >> THEN 0 ELSE Unit]

----------------------------------------------------------------------------
(* C1.  One sweep is a Jacobi update: in the array a sweep returns, every  *)
(* interior value is exactly the mean of the four neighbours as they stood *)
(* in the array the sweep was given (four times the new value is their     *)
(* sum), never of a value written earlier in the same sweep.               *)
JacobiUpdate ==
    [][sweeps' = sweeps + 1 =>
        \A p \in InteriorOf(U) : 4 * U_new'[p] = NeighbourSum(U, p)]_vars

\* A first sweep changed the first interior point of a grid with a second
\* interior point after it: reading the written array would show.
JacobiUpdateWitness ==
    /\ sweeps = 1
    /\ Cardinality(InteriorOf(U0)) >= 2
    /\ U_new[1, 1] # U0[1, 1]

(* C2.  Every boundary entry of the current array and of the array the     *)
(* last sweep returned holds the value it had in the initial array; the    *)
(* arrays keep the initial shape.                                          *)
BoundaryFixed ==
    /\ DOMAIN U = DOMAIN U0
    /\ \A p \in BoundaryOf(U0) : U[p] = U0[p]
    /\ U_new # None =>
          /\ DOMAIN U_new = DOMAIN U0
          /\ \A p \in BoundaryOf(U0) : U_new[p] = U0[p]

\* The run is over, sweeps changed the interior, and the boundary is not
\* uniform.
BoundaryFixedWitness ==
    /\ pc = "done"
    /\ sweeps >= 2
    /\ \E p \in InteriorOf(U0) : U[p] # U0[p]
    /\ \E p, q \in BoundaryOf(U0) : U0[p] # U0[q]

(* C3.  When the loop stops because the last sweep's residual is below the *)
(* tolerance, the array kept as the result (U) is the array that sweep     *)
(* returned.                                                               *)
ResultIsNewField ==
    (pc = "done" /\ LastSweepBelowTol) => U = U_new

(* C4.  A sweep stops the loop as converged if and only if every point     *)
(* changed by strictly less than the tolerance; otherwise (a change equal  *)
(* to the tolerance included) the loop goes on and the new array becomes   *)
(* the current one.                                                        *)
StrictConvergence ==
    [][sweeps' = sweeps + 1 =>
        LET below == \A p \in DOMAIN U : Abs(U_new'[p] - U[p]) < tol
        IN  /\ below <=> (pc' = "done" /\ printed' # NoInt)
            /\ ~ below => (pc' = "loop" /\ U' = U_new')]_vars

\* A sweep whose residual equalled a positive tolerance: the loop went on
\* with the new array.
StrictConvergenceWitness ==
    /\ sweeps >= 1
    /\ tol > 0
    /\ residuals[sweeps] = tol
    /\ pc = "loop"
    /\ U = U_new
    /\ U # U0

(* C5.  Never more than max_iter sweeps are made; when the loop is over    *)
(* and no sweep had a residual below the tolerance, exactly max_iter       *)
(* sweeps were made, nothing was printed (converged = false), and the      *)
(* result is the initial array after exactly max_iter Jacobi sweeps.       *)
ExhaustionResult ==
    /\ sweeps <= max_iter
    /\ (pc = "done" /\ \A n \in 1 .. Len(residuals) : ~ (residuals[n] < tol)) =>
          /\ sweeps = max_iter
          /\ printed = NoInt
          /\ U = Iterate(U0, max_iter)

\* max_iter = 1 with a positive tolerance the first sweep does not meet.
ExhaustionResultWitness ==
    /\ pc = "done"
    /\ max_iter = 1
    /\ tol > 0
    /\ sweeps = 1
    /\ printed = NoInt
    /\ U # U0

(* C6 as stated.  The iteration number printed on convergence is the       *)
(* number of sweeps performed.                                             *)
ReportedIsSweepCount ==
    printed # NoInt => printed = sweeps

(* C6 as amended.  The iteration number printed on convergence is the      *)
(* 0-based loop index, one less than the number of sweeps performed; on    *)
(* the 3x3 grid with boundary 1.0, interior 0.0 and a tolerance t with     *)
(* 0 < t < 1.0, a run allowed at least two sweeps prints 1.                *)
ReportedIsLoopIndex ==
    /\ printed # NoInt => (printed = i /\ printed = sweeps - 1)
    /\ ( /\ pc = "done"
         /\ U0 = MinimalGrid
         /\ 0 < tol /\ tol < Unit
         /\ max_iter >= 2 ) => (printed = 1 /\ sweeps = 2)

\* The minimal grid has converged in its second sweep.
ReportedIsLoopIndexWitness ==
    /\ pc = "done"
    /\ U0 = MinimalGrid
    /\ 0 < tol /\ tol < Unit
    /\ sweeps = 2
    /\ printed = 1

(* C7.  On a grid with Nx < 3 or Ny < 3 no sweep is ever made and          *)
(* convergence is never reported.                                          *)
SmallGridNeverSwept ==
    (Shape(U0)[1] < 3 \/ Shape(U0)[2] < 3) => (sweeps = 0 /\ printed = NoInt)

(* C8.  With tolerance <= 0 or max_iter <= 0 no sweep is made and the loop *)
(* never ends with a result.                                               *)
BadParametersRejected ==
    (tol <= 0 \/ max_iter <= 0) => (sweeps = 0 /\ pc # "done")

(* C9.  Maximum principle: every interior value of the current array and   *)
(* of the array the last sweep returned lies between the least and the     *)
(* greatest value of the initial array.                                    *)
MaximumPrinciple ==
    /\ \A p \in InteriorOf(U0) :
          SetMin(ValuesOf(U0)) <= U[p] /\ U[p] <= SetMax(ValuesOf(U0))
    /\ U_new # None =>
          \A p \in InteriorOf(U0) :
              SetMin(ValuesOf(U0)) <= U_new[p] /\ U_new[p] <= SetMax(ValuesOf(U0))

\* After two sweeps an interior value lies strictly inside the range.
MaximumPrincipleWitness ==
    /\ sweeps >= 2
    /\ \E p \in InteriorOf(U0) :
          SetMin(ValuesOf(U0)) < U_new[p] /\ U_new[p] < SetMax(ValuesOf(U0))

(* C10 as stated.  If all boundary values equal one constant V, then after *)
(* every sweep the array equals V at every point, interior included.       *)
UniformBoundaryGivesUniformField ==
    (sweeps >= 1 /\ \A p, q \in BoundaryOf(U0) : U0[p] = U0[q]) =>
        \A p \in DOMAIN U0, q \in BoundaryOf(U0) : U_new[p] = U0[q]

(* C10 as amended.  If all boundary values and all initial interior values *)
(* equal one constant V, then after every sweep the array equals V at      *)
(* every point.                                                            *)
UniformFieldStaysUniform ==
    (sweeps >= 1 /\ \A p, q \in DOMAIN U0 : U0[p] = U0[q]) =>
        (U_new = U0 /\ U = U0)

\* Sweeps were made over a grid with interior points that is 1.0 everywhere.
UniformFieldStaysUniformWitness ==
    /\ sweeps >= 2
    /\ Cardinality(InteriorOf(U0)) >= 2
    /\ \A p \in DOMAIN U0 : U0[p] = Unit

(* C11.  Idempotence at a fixed point: a sweep over an array whose every   *)
(* interior value is the mean of its four neighbours returns an array      *)
(* equal to it at every point, the residual of that sweep is 0, and with   *)
(* a tolerance > 0 the loop stops as converged on that sweep.              *)
FixedPointIdempotent ==
    [][(sweeps' = sweeps + 1
            /\ \A p \in InteriorOf(U) : 4 * U[p] = NeighbourSum(U, p)) =>
        /\ U_new' = U
        /\ residuals'[sweeps'] = 0
        /\ tol > 0 => (pc' = "done" /\ printed' = i' /\ U' = U)]_vars

\* The loop stopped on a sweep over a fixed point that is not uniform and
\* that earlier sweeps produced.
FixedPointIdempotentWitness ==
    /\ pc = "done"
    /\ printed # NoInt
    /\ sweeps >= 2
    /\ U # U0
    /\ U_new = U
    /\ residuals[sweeps] = 0
    /\ \E p, q \in DOMAIN U : U[p] # U[q]
    /\ \E p \in InteriorOf(U) : U[p] \notin Vals

----------------------------------------------------------------------------
(* Properties of the runs started from the notebook's initial field        *)
(* (SpecUniform): N x N, boundary BoundaryValue, interior 0.               *)

BoundaryValue == U0[0, 0]

StoppedConverged == pc = "done" /\ printed # NoInt

(* C12.  From a square grid with uniform boundary V and zero interior, a   *)
(* run with a tolerance t > 0 eventually stops as converged when max_iter  *)
(* is large enough: within the sweeps explored, max_iter = MaxIter and     *)
(* t >= |V| / 4.                                                           *)
EventuallyConverged ==
    (tol > 0 /\ 4 * tol >= Abs(BoundaryValue) /\ max_iter = MaxIter)
        => <>StoppedConverged

\* A 5x5 run that needed more than two sweeps has stopped as converged.
EventuallyConvergedWitness ==
    /\ StoppedConverged
    /\ Shape(U0) = << 5, 5 >>
    /\ max_iter = MaxIter
    /\ sweeps >= 3

(* C13 as stated.  When such a run stops as converged with tolerance t,    *)
(* the field it keeps is within t of V at every point.                     *)
ConvergedFieldWithinTolerance ==
    StoppedConverged =>
        \A p \in DOMAIN U : Abs(U[p] - BoundaryValue) < tol

(* C13 as amended.  When such a run stops as converged with tolerance t,   *)
(* every boundary point of the field it keeps is exactly V, every interior *)
(* value lies between 0 and V, and one more Jacobi sweep would change      *)
(* every point by less than t.                                             *)
ConvergedFieldNearlyStationary ==
    StoppedConverged =>
        /\ \A p \in BoundaryOf(U) : U[p] = BoundaryValue
        /\ \A p \in InteriorOf(U) : Abs(U[p]) <= Abs(BoundaryValue)
                                    /\ U[p] * BoundaryValue >= 0
        /\ \A p \in DOMAIN U : Abs(U[p] - JacobiMap(U)[p]) < tol

\* A 5x5 run has stopped as converged although even the array of its last
\* sweep is not within the tolerance of V.
ConvergedFieldNearlyStationaryWitness ==
    /\ StoppedConverged
    /\ Shape(U0) = << 5, 5 >>
    /\ sweeps >= 3
    /\ \E p \in InteriorOf(U) : Abs(U_new[p] - BoundaryValue) >= tol

(* C15.  Minimal grid: on the 3x3 grid with boundary V and the interior    *)
(* point at 0, the interior point is exactly V after the first sweep, the  *)
(* residual of sweep 1 is |V| and the residual of sweep 2 is 0.            *)
MinimalGridScenario ==
    (Shape(U0) = << 3, 3 >> /\ sweeps >= 1) =>
        /\ U_new[1, 1] = BoundaryValue
        /\ residuals[1] = Abs(BoundaryValue)
        /\ sweeps >= 2 => residuals[2] = 0

\* Two sweeps were made on the 3x3 grid with a negative boundary value.
MinimalGridScenarioWitness ==
    /\ Shape(U0) = << 3, 3 >>
    /\ BoundaryValue < 0
    /\ sweeps = 2
    /\ residuals = << Abs(BoundaryValue), 0 >>

----------------------------------------------------------------------------
(* Properties of every run (Spec), continued *)

(* C14.  A sweep has no side effect on its input: the array passed to      *)
(* finite_difference is unchanged by the call (a run that breaks keeps its *)
(* pre-sweep array in U, and the initial array never changes), and the     *)
(* array returned depends on nothing but the array passed: it is the       *)
(* Jacobi map of the current array.                                        *)
SweepHasNoSideEffect ==
    [][/\ U0' = U0
       /\ sweeps' = sweeps + 1 =>
            /\ U_new' = JacobiMap(U)
            /\ U' \in { U, U_new' }
            /\ pc' = "done" => U' = U]_vars

\* A run ended in break after two sweeps or more: its first call was passed
\* the initial array, its last call an array that differs from its result.
SweepHasNoSideEffectWitness ==
    /\ pc = "done"
    /\ printed # NoInt
    /\ sweeps >= 2
    /\ U # U0
    /\ U_new # U

(* C17.  The residuals of successive sweeps never increase; and when a     *)
(* sweep's residual is below the tolerance, the residual of one more sweep *)
(* would be below it too.                                                  *)
ResidualsNonIncreasing ==
    /\ \A n \in 1 .. Len(residuals) - 1 : residuals[n + 1] <= residuals[n]
    /\ (LastSweepBelowTol /\ sweeps < MaxIter) =>
          Residual(U_new, JacobiMap(U_new)) < tol

\* Four sweeps with residuals that went down and stayed above zero.
ResidualsNonIncreasingWitness ==
    /\ Len(residuals) >= 4
    /\ residuals[4] < residuals[1]
    /\ residuals[4] > 0

----------------------------------------------------------------------------
(* Property of the sweep spread over workers (SpecPoints) *)

(* C16.  The per-point updates of one sweep commute: in whatever order and *)
(* interleaving the workers take and store the interior points, the array  *)
(* is at every moment the row-major result at the points stored and the    *)
(* pre-sweep array elsewhere, so the finished sweep equals the array       *)
(* finite_difference returns; the pre-sweep array is not touched.          *)
PointOrderIrrelevant ==
    LET final == Returned(finite_difference(U0, dx(Shape(U0)[1])))
        stored == { work.order[n] : n \in 1 .. Len(work.order) }
    IN  /\ U = U0
        /\ \A p \in DOMAIN U0 :
              U_new[p] = IF p \in stored THEN final[p] ELSE U0[p]
        /\ pc = "joined" => (U_new = final /\ stored = InteriorOf(U0))

\* A sweep is finished whose first store was not the first point of the
\* row-major order, made while the other worker held a value, and both the
\* first point stored and the first point of the row-major order changed.
PointOrderIrrelevantWitness ==
    /\ pc = "joined"
    /\ Len(work.order) >= 2
    /\ work.order[1] # << 1, 1 >>
    /\ U_new[work.order[1]] # U0[work.order[1]]
    /\ U_new[1, 1] # U0[1, 1]

====
